---------------------------- MODULE Spec2Model ----------------------------
(***************************************************************************)
(* Model of tinyml_qpy: the signal buffer (TinyML.collect, get_rms), the    *)
(* scoring cycle (TinyML.score) with its debounce / cleanup rules           *)
(* (TinyML_Utils), the class-level configuration (TinyML.__Config_,         *)
(* update_config) and the two threads of _main.py (read, score) with the    *)
(* sensor they read (mpu6500.py).                                           *)
(***************************************************************************)
EXTENDS Integers, Sequences, FiniteSets, TLC

(***************************************************************************)
(* Bounds of the model.                                                     *)
(***************************************************************************)
\* window length in sampling cycles: TinyML(freq, n_signals); _main.py uses 50
freq == 3
\* period of the utime.ticks_ms() counter (2^30 on the device)
TicksPeriod == 8
\* the classifier reports only label 0 once the log holds this many tuples
MaxLog == 2
\* collect calls explored by the sequential specification
MaxCollects == 5
\* longest log the vote is applied to
MaxVote == 5
\* the clock stops at this many milliseconds since boot
MaxClock == 12
\* longest time between the starts of two consecutive score() cycles
MaxDelay == 3

(***************************************************************************)
(* Program constants.                                                       *)
(***************************************************************************)
\* _main.py: tinyml = TinyML(50, 5)
n_signals == 5
\* TinyML.__Config_
TIME_DIFF == 450
MIN_INF_TUPLES == 9
CLEAN_MAX_TUPLES == 9
CLEAN_MAX_TIME_DIFF == 2000

VARIABLES
    buffer,            \* self.buffer: the collected scalars, oldest first
    inference_tuples,  \* self.inference_tuples: <<time, inference>>, oldest first
    Config,            \* TinyML.__Config_: the four class-level thresholds
    sample,            \* index of the sensor's next sampling cycle
    result,            \* what the last score() call returned
    evaluated,         \* the log as the last score() call passed it to debounce
    ncollect,          \* completed collect calls that passed a full group (saturating)
    onlyfull,          \* no collect call has passed an empty group so far
    ppc,               \* _main.read: where the producer thread stands
    spc,               \* _main.score: where the consumer thread stands in score()
    now,               \* score: its local now
    time_diff,         \* score: its local time_diff
    window,            \* score: the list RandomForest.run was called on, as the check saw it
    thresholds,        \* score: the thresholds the cycle has read from Config so far
    upc,               \* update_config: the assignment a call in progress makes next
    args,              \* update_config: the arguments of the call in progress
    old,               \* Config as the update_config call in progress found it
    seen,              \* the configurations in force or being written during the score cycle
    reading,           \* _main.read: how the sensor reads of the producer's cycle ended
    clock,             \* milliseconds since boot; utime.ticks_ms() is clock modulo the period
    stamps,            \* the clock values at which the tuples of `evaluated` were recorded
    fresh,             \* the tuples appended to the log since score() last returned a result
    peer,              \* a second TinyML object of the same process
    call,              \* the keyword arguments of the last update_config call
    rms                \* the last get_rms call: its signal and the values it took from the buffer

data == <<buffer, sample, ncollect, onlyfull>>
returned == <<result, evaluated>>
producer == <<ppc, reading>>
consumer == <<spc, now, time_diff, window, thresholds, seen>>
updater == <<upc, args, old>>
threads == <<producer, consumer, updater>>
timed == <<clock, stamps, fresh>>
shared == <<peer, call>>
others == <<timed, shared, rms>>

vars == <<buffer, inference_tuples, Config, sample, result, evaluated, ncollect, onlyfull,
          ppc, spc, now, time_diff, window, thresholds, upc, args, old, seen,
          reading, clock, stamps, fresh, peer, call, rms>>

(***************************************************************************)
(* Python values.                                                           *)
(***************************************************************************)
\* None, and a returned int x, as sequences: <<>> and <<x>>
None == <<>>
Some(x) == <<x>>

Min(a, b) == IF a <= b THEN a ELSE b
Max(a, b) == IF a >= b THEN a ELSE b

\* Python's truth value of None / an int
truthy(v) == v # None /\ v[1] # 0

\* Python's s[:n] for a list s and an int n
slice_to(s, n) == SubSeq(s, 1, IF n >= 0 THEN Min(n, Len(s)) ELSE Max(Len(s) + n, 0))

(***************************************************************************)
(* The sensor (mpu6500.py) and the group _main.read passes to collect.      *)
(* A scalar is <<sampling cycle, axis>>.                                    *)
(***************************************************************************)
SampleMod == freq + 2

acceleration(s) == << <<s, "ax">>, <<s, "ay">>, <<s, "az">> >>
gyro(s) == << <<s, "gx">>, <<s, "gy">>, <<s, "gz">> >>

\* the cycle index that stands for a reading the I2C transfer did not deliver:
\* read_data returns its zero-filled r_data
Undelivered == 0 - 1

\* the reading the producer holds: of sampling cycle s, or zeros after a
\* transfer that failed without raising
in_hand(r, s) == IF r = "zeros" THEN Undelivered ELSE s

\* [acc[0], acc[1], acc[2]]
read_acc(s) == << acceleration(s)[1], acceleration(s)[2], acceleration(s)[3] >>
\* [gyro[1], gyro[2]]
read_gyro(s) == << gyro(s)[2], gyro(s)[3] >>

(***************************************************************************)
(* TinyML: the buffer.                                                      *)
(***************************************************************************)
capacity == freq * n_signals

\* is_full as its docstring has it: larger than capacity - # of signals
is_full_doc(buf) == Len(buf) > capacity - n_signals

is_full(buf) == Len(buf) > capacity

\* while self.is_full(): self.buffer.pop(0)
RECURSIVE evict(_)
evict(buf) == IF is_full(buf) THEN evict(Tail(buf)) ELSE buf

\* if xs: self.buffer.extend(xs)     (None and [] are both false)
extend(buf, xs) == IF xs # <<>> THEN buf \o xs ELSE buf

collect(buf, acc, gy) == extend(extend(evict(buf), acc), gy)

(***************************************************************************)
(* TinyML_Utils.                                                            *)
(***************************************************************************)
\* plain subtraction of two tick values
ticks_diff_plain(a, b) == a - b

\* utime.ticks_diff: the signed difference of two tick values, modulo the period
ticks_diff(a, b) ==
    ((a - b + TicksPeriod \div 2) % TicksPeriod) - TicksPeriod \div 2

get_time_diff(tuples) ==
    IF Len(tuples) >= 2
    THEN ticks_diff(tuples[Len(tuples)][1], tuples[1][1])
    ELSE 0

reduce_infs(tuples, min_tuples) ==
    LET cut == slice_to(tuples, min_tuples)
    IN  [i \in 1..Len(cut) |-> cut[i][2]]

\* infs.count(x)
count(infs, x) == Cardinality({i \in 1..Len(infs) : infs[i] = x})

\* max(set(infs)): the key left out
get_final_inf_res_nokey(infs) ==
    {x \in {infs[i] : i \in 1..Len(infs)} :
        \A y \in {infs[i] : i \in 1..Len(infs)} : y <= x}

\* max(set(infs), key=infs.count): the first element of maximal count in the
\* iteration order of the set, an order Python leaves unspecified; hence the
\* set of values the call can return
get_final_inf_res(infs) ==
    {x \in {infs[i] : i \in 1..Len(infs)} :
        \A y \in {infs[i] : i \in 1..Len(infs)} : count(infs, y) <= count(infs, x)}

\* debounce with  time_diff >= min_t_diff
debounce_ge(tuples, t_diff, min_tuples, min_t_diff) ==
    IF Len(tuples) >= min_tuples /\ t_diff >= min_t_diff
    THEN {Some(x) : x \in get_final_inf_res(reduce_infs(tuples, min_tuples))}
    ELSE {None}

\* the set of values debounce can return
debounce(tuples, t_diff, min_tuples, min_t_diff) ==
    IF Len(tuples) >= min_tuples /\ t_diff > min_t_diff
    THEN {Some(x) : x \in get_final_inf_res(reduce_infs(tuples, min_tuples))}
    ELSE {None}

\* clean_inf_tuples with  len(inference_tuples) < max_tuples
clean_inf_tuples_lt(tuples, t_diff, max_tuples, max_t_diff) ==
    IF Len(tuples) < max_tuples /\ t_diff >= max_t_diff
    THEN <<>>
    ELSE tuples

clean_inf_tuples(tuples, t_diff, max_tuples, max_t_diff) ==
    IF Len(tuples) <= max_tuples /\ t_diff >= max_t_diff
    THEN <<>>
    ELSE tuples

(***************************************************************************)
(* Inputs.                                                                  *)
(***************************************************************************)
\* RandomForest.run returns an int; score records 1, 2 and 3 only
ClassifierOutputs == 0..3
\* utime.ticks_ms() returns any value of the counter
Ticks == 0..(TicksPeriod - 1)

\* the labels the classifier reports while the log holds `tuples`
Outputs(tuples) == IF Len(tuples) < MaxLog THEN ClassifierOutputs ELSE {0}

\* the calls of update_config, as <<time_diff, min_inf_tuples, clean_max_tuples,
\* clean_max_time_diff>>; update_config() passes the four defaults
DefaultArgs == <<TIME_DIFF, MIN_INF_TUPLES, CLEAN_MAX_TUPLES, CLEAN_MAX_TIME_DIFF>>

UpdateCalls ==
    { DefaultArgs,
      <<1, 2, 1, 1>>,
      <<2, 3, 2, 1>>,
      <<1, 1, 1, 3>> }

(***************************************************************************)
(* The state after  tinyml = TinyML(freq, n_signals).                       *)
(***************************************************************************)
\* the instance attributes a TinyML object is constructed with (score's return
\* value and the log it evaluated are kept with them)
TinyML == [buffer |-> <<>>, inference_tuples |-> <<>>, result |-> None, evaluated |-> <<>>]

\* no tuple appended yet: how many were (counted up to MaxLog + 1), and their labels
NoAppends == [n |-> 0, labels |-> {}]

Init ==
    /\ buffer = <<>>
    /\ inference_tuples = <<>>
    /\ Config = [TIME_DIFF |-> TIME_DIFF,
                 MIN_INF_TUPLES |-> MIN_INF_TUPLES,
                 CLEAN_MAX_TUPLES |-> CLEAN_MAX_TUPLES,
                 CLEAN_MAX_TIME_DIFF |-> CLEAN_MAX_TIME_DIFF]
    /\ sample = 0
    /\ result = None
    /\ evaluated = <<>>
    /\ ncollect = 0
    /\ onlyfull = TRUE
    /\ ppc = "read"
    /\ spc = "idle"
    /\ now = 0
    /\ time_diff = 0
    /\ window = <<>>
    /\ thresholds = <<>>
    /\ upc = "idle"
    /\ args = DefaultArgs
    /\ old = DefaultArgs
    /\ seen = {}
    /\ reading = "ok"
    /\ clock = 0
    /\ stamps = <<>>
    /\ fresh = NoAppends
    /\ peer = TinyML
    /\ call = <<>>
    /\ rms = <<>>

(***************************************************************************)
(* The operations, each call run to completion.                             *)
(***************************************************************************)
\* Config as the arguments <<time_diff, min_inf_tuples, clean_max_tuples, clean_max_time_diff>>
config_args(c) ==
    <<c.TIME_DIFF, c.MIN_INF_TUPLES, c.CLEAN_MAX_TUPLES, c.CLEAN_MAX_TIME_DIFF>>

\* tinyml.collect(acc, gyro) with the group of one sampling cycle
Collect ==
    /\ ncollect < MaxCollects
    /\ buffer' = collect(buffer, read_acc(sample), read_gyro(sample))
    /\ sample' = (sample + 1) % SampleMod
    /\ ncollect' = ncollect + 1
    /\ UNCHANGED <<inference_tuples, Config, returned, onlyfull, threads, others>>

\* tinyml.collect() / tinyml.collect([], [])
CollectEmpty ==
    /\ buffer' = collect(buffer, <<>>, <<>>)
    /\ onlyfull' = FALSE
    /\ UNCHANGED <<inference_tuples, Config, sample, returned, ncollect, threads, others>>

\* len(self.buffer) >= self.capacity
window_ready_ge(buf) == Len(buf) >= capacity

\* len(self.buffer) == self.capacity
window_ready(buf) == Len(buf) = capacity

\* res in [1,2,3]
recorded(res) == res \in {1, 2, 3}

\* the log after the classification step of score
score_append(buf, tuples, t, res) ==
    IF window_ready(buf) /\ recorded(res)
    THEN Append(tuples, <<t, res>>)
    ELSE tuples

\* if result: drop the tuples that voted only
clear_voted_prefix(r, tuples) ==
    IF truthy(r) THEN SubSeq(tuples, Min(Config.MIN_INF_TUPLES, Len(tuples)) + 1, Len(tuples))
    ELSE tuples

\* if result: self.inference_tuples = []
clear_voted(r, tuples) == IF truthy(r) THEN <<>> ELSE tuples

\* tinyml.score(): utime.ticks_ms() returns t and RandomForest.run would return res
Score(t, res) ==
    LET tuples == score_append(buffer, inference_tuples, t, res)
        td == get_time_diff(tuples)
    IN  /\ evaluated' = tuples
        /\ thresholds' = config_args(Config)
        /\ seen' = {config_args(Config)}
        /\ \E r \in debounce(tuples, td, Config.MIN_INF_TUPLES, Config.TIME_DIFF) :
              /\ result' = r
              /\ inference_tuples' = clean_inf_tuples(clear_voted(r, tuples), td,
                                         Config.CLEAN_MAX_TUPLES, Config.CLEAN_MAX_TIME_DIFF)
        /\ UNCHANGED <<data, Config, producer, updater, spc, now, time_diff, window>>

ScoreCall ==
    /\ \E t \in Ticks, res \in Outputs(inference_tuples) : Score(t, res)
    /\ UNCHANGED others

\* tinyml.update_config(t_diff, min_inf_tuples, clean_max_tuples, clean_max_time_diff)
update_config(t_diff, min_inf_tuples, clean_max_tuples, clean_max_time_diff) ==
    /\ Config' = [TIME_DIFF |-> t_diff,
                  MIN_INF_TUPLES |-> min_inf_tuples,
                  CLEAN_MAX_TUPLES |-> clean_max_tuples,
                  CLEAN_MAX_TIME_DIFF |-> clean_max_time_diff]
    /\ UNCHANGED <<data, inference_tuples, returned, threads>>

UpdateConfigCall ==
    /\ \E a \in UpdateCalls : update_config(a[1], a[2], a[3], a[4])
    /\ UNCHANGED others

Next == Collect \/ ScoreCall \/ UpdateConfigCall

Spec == Init /\ [][Next]_vars

(***************************************************************************)
(* The same operations step by step, as the threads of _main.py run them.   *)
(***************************************************************************)
\* read(): acc = mpu6500.acceleration(); gyro = mpu6500.gyro(); collect is entered
ReadSensor ==
    /\ ppc = "read"
    /\ ppc' = "evict"
    /\ reading' = "ok"
    /\ UNCHANGED <<data, inference_tuples, Config, returned, consumer, updater, others>>

\* collect: one test of  while self.is_full()  and, when it holds, one pop(0)
EvictStep ==
    /\ ppc = "evict"
    /\ IF is_full(buffer)
       THEN buffer' = Tail(buffer) /\ ppc' = "evict"
       ELSE buffer' = buffer /\ ppc' = "acc"
    /\ UNCHANGED <<sample, ncollect, onlyfull, inference_tuples, Config, returned,
                   reading, consumer, updater, others>>

\* collect: if acc: self.buffer.extend(acc)
ExtendAcc ==
    /\ ppc = "acc"
    /\ buffer' = extend(buffer, read_acc(in_hand(reading, sample)))
    /\ ppc' = "gyro"
    /\ UNCHANGED <<sample, ncollect, onlyfull, inference_tuples, Config, returned,
                   reading, consumer, updater, others>>

\* collect: if gyro: self.buffer.extend(gyro); collect returns, read() sleeps
ExtendGyro ==
    /\ ppc = "gyro"
    /\ buffer' = extend(buffer, read_gyro(in_hand(reading, sample)))
    /\ ppc' = "read"
    /\ sample' = (sample + 1) % SampleMod
    /\ ncollect' = Min(ncollect + 1, MaxCollects)
    /\ UNCHANGED <<onlyfull, inference_tuples, Config, returned, reading, consumer,
                   updater, others>>

Producer == ReadSensor \/ EvictStep \/ ExtendAcc \/ ExtendGyro

\* score: now = utime.ticks_ms(); if len(self.buffer) == self.capacity
ScoreBegin(t) ==
    /\ spc = "idle"
    /\ now' = t
    /\ IF window_ready(buffer)
       THEN spc' = "run" /\ window' = buffer
       ELSE spc' = "eval" /\ window' = <<>>
    /\ thresholds' = <<>>
    /\ seen' = IF upc = "idle" THEN {config_args(Config)} ELSE {old, args}
    /\ time_diff' = 0
    /\ UNCHANGED <<data, inference_tuples, Config, returned, producer, updater, others>>

\* score: res = RandomForest.run(self.buffer) returns; if res in [1,2,3]: append
ScoreRun(res) ==
    /\ spc = "run"
    /\ inference_tuples' =
          IF recorded(res) THEN Append(inference_tuples, <<now, res>>) ELSE inference_tuples
    /\ spc' = "eval"
    /\ UNCHANGED <<data, Config, returned, now, time_diff, window, thresholds, seen,
                   producer, updater, others>>

\* score: time_diff = get_time_diff(...); result = debounce(...); if result: clear
ScoreEval ==
    /\ spc = "eval"
    /\ time_diff' = get_time_diff(inference_tuples)
    /\ \E r \in debounce(inference_tuples, time_diff',
                         Config.MIN_INF_TUPLES, Config.TIME_DIFF) :
          /\ result' = r
          /\ inference_tuples' = clear_voted(r, inference_tuples)
    /\ evaluated' = inference_tuples
    /\ thresholds' = <<Config.TIME_DIFF, Config.MIN_INF_TUPLES>>
    /\ spc' = "clean"
    /\ UNCHANGED <<data, Config, now, window, seen, producer, updater, others>>

\* score: self.inference_tuples = clean_inf_tuples(...); return result
ScoreClean ==
    /\ spc = "clean"
    /\ inference_tuples' = clean_inf_tuples(inference_tuples, time_diff,
                               Config.CLEAN_MAX_TUPLES, Config.CLEAN_MAX_TIME_DIFF)
    /\ thresholds' = thresholds \o <<Config.CLEAN_MAX_TUPLES, Config.CLEAN_MAX_TIME_DIFF>>
    /\ spc' = "idle"
    /\ now' = 0
    /\ time_diff' = 0
    /\ window' = <<>>
    /\ UNCHANGED <<data, Config, returned, seen, producer, updater, others>>

Consumer(T) ==
    \/ \E t \in T : ScoreBegin(t)
    \/ \E res \in Outputs(inference_tuples) : ScoreRun(res)
    \/ ScoreEval
    \/ ScoreClean

\* update_config is called with the arguments a
UpdateBegin(a) ==
    /\ upc = "idle"
    /\ args' = a
    /\ old' = config_args(Config)
    /\ upc' = "TIME_DIFF"
    /\ seen' = IF spc = "idle" THEN seen ELSE seen \cup {a}
    /\ UNCHANGED <<data, inference_tuples, Config, returned, producer,
                   spc, now, time_diff, window, thresholds, others>>

\* update_config: the next of its four assignments
UpdateStep ==
    /\ upc # "idle"
    /\ Config' =
          CASE upc = "TIME_DIFF" -> [Config EXCEPT !.TIME_DIFF = args[1]]
            [] upc = "MIN_INF_TUPLES" -> [Config EXCEPT !.MIN_INF_TUPLES = args[2]]
            [] upc = "CLEAN_MAX_TUPLES" -> [Config EXCEPT !.CLEAN_MAX_TUPLES = args[3]]
            [] upc = "CLEAN_MAX_TIME_DIFF" -> [Config EXCEPT !.CLEAN_MAX_TIME_DIFF = args[4]]
    /\ upc' =
          CASE upc = "TIME_DIFF" -> "MIN_INF_TUPLES"
            [] upc = "MIN_INF_TUPLES" -> "CLEAN_MAX_TUPLES"
            [] upc = "CLEAN_MAX_TUPLES" -> "CLEAN_MAX_TIME_DIFF"
            [] upc = "CLEAN_MAX_TIME_DIFF" -> "idle"
    /\ UNCHANGED <<data, inference_tuples, returned, producer, consumer, args, old, others>>

Updater(calls) == (\E a \in calls : UpdateBegin(a)) \/ UpdateStep

\* the tick values read where the threads' interleaving is explored
ThreadTicks == {0}

\* _main.py: the producer thread and the consumer thread
ThreadNext == Producer \/ Consumer(ThreadTicks)

ThreadSpec == Init /\ [][ThreadNext]_vars

\* both threads keep being scheduled
FairThreadSpec ==
    ThreadSpec /\ WF_vars(Producer) /\ WF_vars(Consumer(ThreadTicks))

\* score cycles (in a thread) while update_config calls are made and groups collected
ConfigCalls == {DefaultArgs, <<1, 2, 1, 1>>}

ConfigNext == Collect \/ Consumer(ThreadTicks) \/ Updater(ConfigCalls)

ConfigSpec == Init /\ [][ConfigNext]_vars

(***************************************************************************)
(* The vote on its own: score() applied to a log of up to MaxVote tuples    *)
(* (the last one recorded at any tick, the others at tick 0) under a        *)
(* configuration set before by update_config(1, m, 2, 2).                   *)
(***************************************************************************)
VoteLogs ==
    UNION { { [i \in 1..n |-> <<IF i = n THEN last ELSE 0, l[i]>>] :
                l \in [1..n -> 1..3], last \in Ticks } : n \in 0..MaxVote }

VoteArgs == { <<1, m, 2, 2>> : m \in 1..MaxVote }

VoteInit ==
    /\ buffer = <<>>
    /\ inference_tuples \in VoteLogs
    /\ \E a \in VoteArgs :
          Config = [TIME_DIFF |-> a[1], MIN_INF_TUPLES |-> a[2],
                    CLEAN_MAX_TUPLES |-> a[3], CLEAN_MAX_TIME_DIFF |-> a[4]]
    /\ sample = 0
    /\ result = None
    /\ evaluated = <<>>
    /\ ncollect = 0
    /\ onlyfull = TRUE
    /\ ppc = "read"
    /\ spc = "idle"
    /\ now = 0
    /\ time_diff = 0
    /\ window = <<>>
    /\ thresholds = <<>>
    /\ upc = "idle"
    /\ args = DefaultArgs
    /\ old = DefaultArgs
    /\ seen = {}
    /\ reading = "ok"
    /\ clock = 0
    /\ stamps = <<>>
    /\ fresh = NoAppends
    /\ peer = TinyML
    /\ call = <<>>
    /\ rms = <<>>

VoteNext == ScoreCall

VoteSpec == VoteInit /\ [][VoteNext]_vars

(***************************************************************************)
(* collect called with groups of any size: full groups and empty ones.      *)
(***************************************************************************)
GroupNext == Collect \/ CollectEmpty \/ ScoreCall

GroupSpec == Init /\ [][GroupNext]_vars

(***************************************************************************)
(* The producer thread of _main.py with a sensor whose reads can fail.      *)
(***************************************************************************)
\* read(): the I2C transfer of mpu6500.acceleration() / mpu6500.gyro() fails.
\* Either self.i2c.read raises (read() has no handler, the thread ends), or it
\* reports the failure in its return value, which read_data drops: the
\* zero-filled r_data is returned as the reading and collect is entered.
ReadFail ==
    /\ ppc = "read"
    /\ \/ ppc' = "dead" /\ reading' = "raised"
       \/ ppc' = "evict" /\ reading' = "zeros"
    /\ UNCHANGED <<data, inference_tuples, Config, returned, consumer, updater, others>>

SensorNext == Producer \/ ReadFail

SensorSpec == Init /\ [][SensorNext]_vars

(***************************************************************************)
(* score() cycles in real time under a configuration that stays as          *)
(* update_config set it: every cycle starts 1..MaxDelay ms after the one    *)
(* before, and utime.ticks_ms() returns the clock modulo the counter's      *)
(* period.                                                                  *)
(***************************************************************************)
ClockArgs == { <<0, 2, 2, 3>>, <<0, 3, 2, 2>>, <<1, 2, 1, 1>>, <<1, 1, 1, 3>> }

ClockDelays == 1..MaxDelay

\* utime.ticks_ms() at clock value c
ticks_ms(c) == c % TicksPeriod

ClockInit ==
    /\ buffer = <<>>
    /\ inference_tuples = <<>>
    /\ \E a \in ClockArgs :
          Config = [TIME_DIFF |-> a[1], MIN_INF_TUPLES |-> a[2],
                    CLEAN_MAX_TUPLES |-> a[3], CLEAN_MAX_TIME_DIFF |-> a[4]]
    /\ sample = 0
    /\ result = None
    /\ evaluated = <<>>
    /\ ncollect = 0
    /\ onlyfull = TRUE
    /\ ppc = "read"
    /\ spc = "idle"
    /\ now = 0
    /\ time_diff = 0
    /\ window = <<>>
    /\ thresholds = <<>>
    /\ upc = "idle"
    /\ args = DefaultArgs
    /\ old = DefaultArgs
    /\ seen = {}
    /\ reading = "ok"
    /\ clock = 0
    /\ stamps = <<>>
    /\ fresh = NoAppends
    /\ peer = TinyML
    /\ call = <<>>
    /\ rms = <<>>

\* tinyml.score() called d ms after the last call
ClockScore(d, res) ==
    LET kept == IF inference_tuples = <<>> THEN <<>> ELSE stamps
        since == IF result # None THEN NoAppends ELSE fresh
        appends == window_ready(buffer) /\ recorded(res)
    IN  /\ clock + d <= MaxClock
        /\ clock' = clock + d
        /\ Score(ticks_ms(clock + d), res)
        /\ stamps' = IF appends THEN Append(kept, clock + d) ELSE kept
        /\ fresh' = IF appends
                    THEN [n |-> Min(since.n + 1, MaxLog + 1), labels |-> since.labels \cup {res}]
                    ELSE since
        /\ UNCHANGED <<shared, rms>>

ClockScoreCall ==
    \E d \in ClockDelays, res \in Outputs(inference_tuples) : ClockScore(d, res)

ClockNext == Collect \/ ClockScoreCall

ClockSpec == ClockInit /\ [][ClockNext]_vars

(***************************************************************************)
(* Two TinyML objects in one process: tinyml and peer are fed the same      *)
(* groups, each runs its own score() cycles, and update_config is called    *)
(* with some of its keyword arguments left out.                             *)
(***************************************************************************)
\* the keyword arguments of an update_config call, in the order time_diff,
\* min_inf_tuples, clean_max_tuples, clean_max_time_diff: Some(v), or None
\* where the argument is left out
KeywordCalls ==
    { <<None, None, None, None>>,
      <<Some(1), Some(2), Some(1), Some(1)>>,
      <<Some(1), None, None, None>>,
      <<None, Some(2), None, Some(1)>> }

\* the tick values read by the score() cycles of the two objects
SharedTicks == {0, 2}

\* the labels the classifier reports to the two objects while a log holds `tuples`
SharedOutputs(tuples) == Outputs(tuples) \cap {0, 1}

\* an omitted argument takes the value of the class attribute at this call
bind_current(k) ==
    [i \in 1..4 |-> IF k[i] = None THEN config_args(Config)[i] ELSE k[i][1]]

\* the values update_config's parameters are bound to: the argument passed, or
\* the default, evaluated once when the method was defined
bind(k) ==
    [i \in 1..4 |-> IF k[i] = None THEN DefaultArgs[i] ELSE k[i][1]]

\* update_config(**k) called on either object (the method does not use self);
\* call keeps the arguments and Config as the call found it
SharedUpdate(k) ==
    /\ update_config(bind(k)[1], bind(k)[2], bind(k)[3], bind(k)[4])
    /\ call' = <<k, config_args(Config)>>
    /\ UNCHANGED <<timed, peer, rms>>

\* the group of one sampling cycle is collected by both objects
SharedCollect ==
    /\ ncollect < MaxCollects
    /\ buffer' = collect(buffer, read_acc(sample), read_gyro(sample))
    /\ peer' = [peer EXCEPT !.buffer = collect(@, read_acc(sample), read_gyro(sample))]
    /\ sample' = (sample + 1) % SampleMod
    /\ ncollect' = ncollect + 1
    /\ UNCHANGED <<inference_tuples, Config, returned, onlyfull, threads, timed, call, rms>>

\* tinyml.score()
SharedScore(t, res) ==
    /\ Score(t, res)
    /\ UNCHANGED others

\* peer.score(): utime.ticks_ms() returns t and RandomForest.run would return res
PeerScore(t, res) ==
    LET tuples == score_append(peer.buffer, peer.inference_tuples, t, res)
        td == get_time_diff(tuples)
    IN  /\ \E r \in debounce(tuples, td, Config.MIN_INF_TUPLES, Config.TIME_DIFF) :
              peer' = [buffer |-> peer.buffer,
                       inference_tuples |->
                           clean_inf_tuples(clear_voted(r, tuples), td,
                               Config.CLEAN_MAX_TUPLES, Config.CLEAN_MAX_TIME_DIFF),
                       result |-> r,
                       evaluated |-> tuples]
        /\ UNCHANGED <<data, inference_tuples, Config, returned, threads, timed, call, rms>>

SharedNext ==
    \/ SharedCollect
    \/ \E t \in SharedTicks, res \in SharedOutputs(inference_tuples) : SharedScore(t, res)
    \/ \E t \in SharedTicks, res \in SharedOutputs(peer.inference_tuples) : PeerScore(t, res)
    \/ \E k \in KeywordCalls : SharedUpdate(k)

SharedSpec == Init /\ [][SharedNext]_vars

(***************************************************************************)
(* get_rms called between the collects.                                     *)
(***************************************************************************)
\* self.buffer[signal:][0::3] for signal >= 0: the values get_rms takes the
\* root mean square of
rms_vals(buf, signal) ==
    LET rest == SubSeq(buf, signal + 1, Len(buf))
    IN  [i \in 1..((Len(rest) + 2) \div 3) |-> rest[3 * (i - 1) + 1]]

\* tinyml.get_rms(signal); with no value to take (l = 0) the division raises
GetRms(signal) ==
    /\ rms' = <<signal, rms_vals(buffer, signal)>>
    /\ UNCHANGED <<data, inference_tuples, Config, returned, threads, timed, shared>>

GetRmsCall == \E signal \in 0..(n_signals - 1) : GetRms(signal)

RmsNext == Collect \/ GetRmsCall

RmsSpec == Init /\ [][RmsNext]_vars

(***************************************************************************)
(* Claims.                                                                  *)
(***************************************************************************)
\* scalars of one group as _main.read passes it
arity == Len(read_acc(0)) + Len(read_gyro(0))

\* C1: starting empty, after the k-th consecutive collect of a full group has
\* completed the buffer holds min(k * arity, capacity) scalars (capacity 15,
\* arity 5: 5, 10, 15, 15, ...); ncollect = k while k <= MaxCollects.
C1_Original ==
    (onlyfull /\ ppc = "read") => Len(buffer) = Min(ncollect * arity, capacity)

\* C2: at every observation point, between the steps of a collect included,
\* 0 <= size <= capacity + channels_per_cycle - 1.
C2_Original ==
    /\ 0 <= Len(buffer)
    /\ Len(buffer) <= capacity + n_signals - 1

\* the labels of the first n tuples of a log
Prefix(log, n) == [i \in 1..Min(n, Len(log)) |-> log[i][2]]

\* how often x occurs in the sequence s
Occurrences(s, x) == Cardinality({i \in DOMAIN s : s[i] = x})

\* the labels of s that occur most often
MostFrequent(s) ==
    {s[i] : i \in {j \in DOMAIN s : \A k \in DOMAIN s :
                        Occurrences(s, s[k]) <= Occurrences(s, s[j])}}

\* the most frequent label of s met first when s is scanned left to right
FirstMostFrequent(s) ==
    s[CHOOSE i \in DOMAIN s :
        /\ s[i] \in MostFrequent(s)
        /\ \A j \in 1..(i - 1) : s[j] \notin MostFrequent(s)]

C4_ResultIff ==
    (spc = "idle" /\ Len(thresholds) = 4) =>
        (result # None <=>
            (Len(evaluated) >= thresholds[2] /\ get_time_diff(evaluated) > thresholds[1]))

\* C4: a result was returned on a log of exactly min_tuples tuples.
C4_Witness ==
    /\ spc = "idle"
    /\ Len(thresholds) = 4
    /\ result # None
    /\ Len(evaluated) = thresholds[2]

\* C5: whenever score() returns a debounce result the log is empty when the
\* call returns, tuples beyond the first min_tuples included.
C5_LogCleared ==
    (spc = "idle" /\ result # None) => inference_tuples = <<>>

\* C5: a result was returned on a log longer than min_tuples and the log is empty.
C5_Witness ==
    /\ spc = "idle"
    /\ Len(thresholds) = 4
    /\ result # None
    /\ Len(evaluated) > thresholds[2]
    /\ inference_tuples = <<>>

\* C6: in a cycle with no debounce result the log is emptied if
\* len(log) <= clean_max_tuples and time_diff >= clean_max_time_diff_ms, and is
\* otherwise left as it was after the cycle's optional append.
C6_Cleanup ==
    (spc = "idle" /\ Len(thresholds) = 4 /\ result = None) =>
        inference_tuples =
            IF Len(evaluated) <= thresholds[3] /\ get_time_diff(evaluated) >= thresholds[4]
            THEN <<>>
            ELSE evaluated

\* C6: a cycle without result emptied a log that held tuples.
C6_Witness ==
    /\ spc = "idle"
    /\ Len(thresholds) = 4
    /\ result = None
    /\ evaluated # <<>>
    /\ inference_tuples = <<>>

\* C7: a score() cycle appends a tuple if and only if the buffer size equals
\* capacity at the check and the classifier's label is in {1,2,3}; the tuple is
\* (timestamp taken at the start of the cycle, label); every tuple in the log
\* carries a label in {1,2,3}.
C7_Append ==
    /\ [](\A i \in 1..Len(inference_tuples) : inference_tuples[i][2] \in {1, 2, 3})
    /\ [][\A t \in Ticks, res \in ClassifierOutputs :
            Score(t, res) =>
                evaluated' = IF Len(buffer) = capacity /\ res \in {1, 2, 3}
                             THEN Append(inference_tuples, <<t, res>>)
                             ELSE inference_tuples]_vars

\* C7: a tuple was appended while the buffer held exactly capacity scalars.
C7_Witness ==
    /\ Len(buffer) = capacity
    /\ inference_tuples # <<>>
    /\ evaluated = inference_tuples

\* C8: the window the classifier reads is the buffer as the cycle's
\* size == capacity check saw it: while RandomForest.run is running the buffer
\* holds capacity scalars and does not change.
C8_Original ==
    spc = "run" => (buffer = window /\ Len(buffer) = capacity)

\* C9: with both threads scheduled fairly, once the buffer has filled the
\* classifier is invoked again and again.
C9_Original ==
    (Len(buffer) >= capacity) ~> (spc = "run")

\* C10: a score() evaluation uses the four thresholds of one configuration:
\* one in force, or being written, at some time during the evaluation.
C10_Original ==
    (spc = "idle" /\ Len(thresholds) = 4) => thresholds \in seen


\* C11: collect called with an empty group (no acc values, no gyro values) is
\* a no-op: the buffer after the call equals the buffer before it, whatever its
\* size before the call.
C11_Original ==
    [][CollectEmpty => buffer' = buffer]_vars

\* C12: a failed sensor read does not stop the producer loop, and the cycle it
\* fails in is skipped with the buffer left unchanged: the producer thread is
\* never dead and the buffer holds no scalar of an undelivered reading.
C12_Original ==
    /\ ppc # "dead"
    /\ \A i \in 1..Len(buffer) : buffer[i][1] # Undelivered

\* milliseconds between the recording of the oldest and of the newest tuple of
\* the log the last score() cycle evaluated
RealSpan == IF Len(stamps) >= 2 THEN stamps[Len(stamps)] - stamps[1] ELSE 0

\* half the period of the tick counter: the elapsed times utime.ticks_diff can
\* tell from negative ones
HalfPeriod == TicksPeriod \div 2

\* C13: get_time_diff returns 0 for a log with fewer than two tuples, and
\* otherwise the time elapsed from the recording of the oldest tuple to that of
\* the newest, also when the tick counter wrapped between the two, for every
\* elapsed time that is small (below half the counter's period).
C13_TimeDiff ==
    /\ Len(evaluated) < 2 => get_time_diff(evaluated) = 0
    /\ (Len(evaluated) >= 2 /\ RealSpan < HalfPeriod) => get_time_diff(evaluated) = RealSpan

\* C13: score() evaluated a log of two tuples between which the tick counter
\* wrapped (the newest tuple carries the smaller tick value) after a small
\* elapsed time.
C13_Witness ==
    /\ Len(evaluated) = 2
    /\ evaluated[2][1] < evaluated[1][1]
    /\ RealSpan > 0
    /\ RealSpan < HalfPeriod
    /\ get_time_diff(evaluated) = RealSpan

\* the four thresholds the last update_config call passed, an omitted one
\* being the original default (450, 9, 9, 2000); the defaults before any call
Passed ==
    IF call = <<>> THEN <<TIME_DIFF, MIN_INF_TUPLES, CLEAN_MAX_TUPLES, CLEAN_MAX_TIME_DIFF>>
    ELSE <<IF call[1][1] = None THEN TIME_DIFF ELSE call[1][1][1],
           IF call[1][2] = None THEN MIN_INF_TUPLES ELSE call[1][2][1],
           IF call[1][3] = None THEN CLEAN_MAX_TUPLES ELSE call[1][3][1],
           IF call[1][4] = None THEN CLEAN_MAX_TIME_DIFF ELSE call[1][4][1]>>

\* a score() cycle that evaluated the log ev, returned r and left the log `left`
\* decided its vote and its cleanup with the thresholds a
EvaluatedWith(ev, r, left, a) ==
    /\ r # None <=> (Len(ev) >= a[2] /\ get_time_diff(ev) > a[1])
    /\ left = IF r # None \/ (Len(ev) <= a[3] /\ get_time_diff(ev) >= a[4])
              THEN <<>>
              ELSE ev

\* C14: Config is process-wide and update_config overwrites all four
\* thresholds: after a call on either object the class attributes hold the
\* passed values, an omitted one being the original default, and every later
\* score() of tinyml and of peer decides with exactly these values.
C14_ProcessWide ==
    /\ [](config_args(Config) = Passed)
    /\ [][UNCHANGED <<buffer, peer, Config, call>> =>
            EvaluatedWith(evaluated', result', inference_tuples', Passed)]_vars
    /\ [][(peer' # peer /\ peer'.buffer = peer.buffer) =>
            EvaluatedWith(peer'.evaluated, peer'.result, peer'.inference_tuples, Passed)]_vars

\* C14: update_config(min_inf_tuples=2, clean_max_time_diff=1) was called when
\* TIME_DIFF was 1; TIME_DIFF is 450 again, and peer, on a log of two tuples 2 ms
\* apart, returned no result and emptied its log, as only these values make it do.
C14_Witness ==
    /\ call # <<>>
    /\ call[1] = <<None, Some(2), None, Some(1)>>
    /\ call[2][1] = 1
    /\ Config.TIME_DIFF = TIME_DIFF
    /\ Len(peer.evaluated) = 2
    /\ get_time_diff(peer.evaluated) = 2
    /\ peer.result = None
    /\ peer.inference_tuples = <<>>

\* the buffered scalars of channel signal: those at the 0-based positions
\* signal, signal + n_signals, signal + 2 * n_signals, ...
Channel(buf, signal) ==
    LET at == {p \in 1..Len(buf) : (p - 1) % n_signals = signal}
    IN  [i \in 1..Cardinality(at) |-> buf[signal + 1 + (i - 1) * n_signals]]

\* C15: get_rms(signal) computes over exactly the buffered values of channel
\* signal, one per collected group, and over no other buffer position.
C15_Original ==
    [][\A signal \in 0..(n_signals - 1) :
          GetRms(signal) => rms'[2] = Channel(buffer, signal)]_vars

\* C16: no vote fires on stale entries: whenever score() returns a debounce
\* result under a constant Config, the time_diff between the oldest and the
\* newest tuple of the log it voted on is below clean_max_time_diff_ms.
C16_Original ==
    (Len(thresholds) = 4 /\ result # None) => get_time_diff(evaluated) < thresholds[4]

\* the shortest time between the starts of two consecutive score() cycles
MinDelay == CHOOSE d \in ClockDelays : \A e \in ClockDelays : d <= e

\* C17: the log does not grow without bound: under a constant Config and
\* score() cycles at least P ms apart with (min_tuples - 1) * P >
\* time_diff_threshold_ms, the log holds at most min_tuples - 1 tuples whenever
\* a score() call returns and never more than min_tuples tuples.
C17_Original ==
    ((Config.MIN_INF_TUPLES - 1) * MinDelay > Config.TIME_DIFF) =>
        /\ Len(inference_tuples) <= Config.MIN_INF_TUPLES - 1
        /\ Len(evaluated) <= Config.MIN_INF_TUPLES

\* C19: with clean_max_time_diff_ms > 0 and time_diff_threshold_ms >= 0 a log
\* of exactly one tuple is neither cleared nor voted on, and when a second tuple
\* is appended at least clean_max_time_diff_ms after the first, with
\* clean_max_tuples >= 2 and min_tuples > 2, the cleanup of that cycle empties
\* the log.
C19_Original ==
    (Config.CLEAN_MAX_TIME_DIFF > 0 /\ Config.TIME_DIFF >= 0) =>
        /\ Len(evaluated) = 1 => (result = None /\ inference_tuples = evaluated)
        /\ ( /\ Len(evaluated) = 2
             /\ RealSpan >= Config.CLEAN_MAX_TIME_DIFF
             /\ Config.CLEAN_MAX_TUPLES >= 2
             /\ Config.MIN_INF_TUPLES > 2 ) => inference_tuples = <<>>

C20_Fresh ==
    (Len(thresholds) = 4 /\ result # None /\ Config.MIN_INF_TUPLES >= 1) =>
        /\ fresh.n >= Config.MIN_INF_TUPLES
        /\ result[1] \in fresh.labels
        /\ result[1] \in {1, 2, 3}

\* C20: score() returned a result with min_tuples = 2, exactly two tuples
\* having been appended since the result before it, with different labels.
C20_Witness ==
    /\ Len(thresholds) = 4
    /\ result # None
    /\ Config.MIN_INF_TUPLES = 2
    /\ fresh.n = 2
    /\ Cardinality(fresh.labels) = 2
    /\ result[1] \in fresh.labels

==========================================================================
